---- MODULE Spec2Model ----
(***************************************************************************)
(* Model of install.py, the installer of the claude-approve / claude-stop  *)
(* hooks: file placement, manifest, optional rebuild, and the              *)
(* read-modify-atomic-write cycle on ~/.claude/settings.json.              *)
(*                                                                         *)
(* Python strings that the code searches (command strings, markers) are    *)
(* sequences of one-character strings, so that `marker in command` is a    *)
(* real substring search.  A Python dict is a sequence of [k, v] pairs in  *)
(* insertion order, which is the order json.dump writes.                   *)
(***************************************************************************)
EXTENDS Integers, Sequences, FiniteSets, TLC

(***************************************************************************)
(* Bounds of the model.                                                    *)
(***************************************************************************)
\* longest event array of an initial settings document
MaxEntries == 2
\* number of write() calls one json.dump + close makes on the temp file
NChunks == 2
\* number of installer runs in a behaviour
MaxRuns == 2
\* most files of HOOK_FILES a local clone lacks
MaxMissing == 1

(***************************************************************************)
(* Constants of install.py.                                                *)
(***************************************************************************)
HOOK_FILES ==
  << "hooks/claude-approve", "hooks/claude-approve.swift", "hooks/claude-stop",
     "hooks/claude-stop.swift", "hooks/auto-approve.json" >>

EXECUTABLES == << "hooks/claude-approve", "hooks/claude-stop" >>

SWIFT_BINARIES ==
  << [src |-> "hooks/claude-approve.swift", dst |-> "hooks/claude-approve"],
     [src |-> "hooks/claude-stop.swift", dst |-> "hooks/claude-stop"] >>

ApproveCommand ==
  << "~", "/", ".", "c", "l", "a", "u", "d", "e", "/", "h", "o", "o", "k", "s",
     "/", "c", "l", "a", "u", "d", "e", "-", "a", "p", "p", "r", "o", "v", "e" >>

StopCommand ==
  << "~", "/", ".", "c", "l", "a", "u", "d", "e", "/", "h", "o", "o", "k", "s",
     "/", "c", "l", "a", "u", "d", "e", "-", "s", "t", "o", "p" >>

HOOK_ENTRY ==
  [ hooks |-> << [ command |-> ApproveCommand, timeout |-> 600,
                   statusMessage |-> "Waiting for approval in dialog...",
                   type |-> "command" ] >>,
    matcher |-> "^(Bash|Edit|Write|Read|NotebookEdit|Task|WebFetch|WebSearch|Glob|Grep|AskUserQuestion)$" ]

STOP_HOOK_ENTRY ==
  [ hooks |-> << [ command |-> StopCommand, timeout |-> 15, type |-> "command" ] >> ]

\* the marker remove_our_hooks passes to strip for PreToolUse
ApproveMarker ==
  << "c", "l", "a", "u", "d", "e", "-", "a", "p", "p", "r", "o", "v", "e" >>

\* the marker remove_our_hooks passes to strip for Stop
StopMarker == << "c", "l", "a", "u", "d", "e", "-", "s", "t", "o", "p" >>

(***************************************************************************)
(* Python primitives the code uses.                                        *)
(***************************************************************************)
\* `m in s` on str
Contains(s, m) ==
  \E i \in 0 .. (Len(s) - Len(m)) : SubSeq(s, i + 1, i + Len(m)) = m

\* `k in d` on a dict
HasKey(d, k) == \E i \in 1 .. Len(d) : d[i].k = k

\* d[k], for a key that is present
Lookup(d, k) == d[CHOOSE i \in 1 .. Len(d) : d[i].k = k].v

\* d.get(k, default)
DictGet(d, k, default) == IF HasKey(d, k) THEN Lookup(d, k) ELSE default

\* d[k] = v: a present key keeps its place, a new key goes last
DictSet(d, k, v) ==
  IF HasKey(d, k)
  THEN [ i \in 1 .. Len(d) |-> IF d[i].k = k THEN [k |-> k, v |-> v] ELSE d[i] ]
  ELSE Append(d, [k |-> k, v |-> v])

\* the dict after d.setdefault(k, default)
DictSetDefault(d, k, default) ==
  IF HasKey(d, k) THEN d ELSE Append(d, [k |-> k, v |-> default])

\* JSON values under the top-level keys
JObj(o) == [t |-> "obj", o |-> o]
JNull == [t |-> "null"]
JStr(s) == [t |-> "str", s |-> s]

(***************************************************************************)
(* remove_our_hooks and its inner strip.                                   *)
(***************************************************************************)
\* h.get("command", "")
CommandOf(h) == IF "command" \in DOMAIN h THEN h.command ELSE << >>

\* e.get("hooks", [])
HooksOf(e) == IF "hooks" \in DOMAIN e THEN e.hooks ELSE << >>

\* the check with the first descriptor alone inspected
FirstCommandHas(e, marker) ==
  /\ HooksOf(e) # << >>
  /\ Contains(CommandOf(HooksOf(e)[1]), marker)

\* any(marker in h.get("command", "") for h in e.get("hooks", []))
AnyCommandHas(e, marker) ==
  \E j \in 1 .. Len(HooksOf(e)) : Contains(CommandOf(HooksOf(e)[j]), marker)

\* the list with only the first owned entry dropped
RECURSIVE strip_first(_, _)
strip_first(entries, marker) ==
  IF entries = << >> THEN << >>
  ELSE IF ~AnyCommandHas(Head(entries), marker)
       THEN << Head(entries) >> \o strip_first(Tail(entries), marker)
       ELSE Tail(entries)

\* the list with the entries that have no "hooks" key dropped as well
RECURSIVE strip_drop_malformed(_, _)
strip_drop_malformed(entries, marker) ==
  IF entries = << >> THEN << >>
  ELSE IF "hooks" \in DOMAIN Head(entries) /\ ~AnyCommandHas(Head(entries), marker)
       THEN << Head(entries) >> \o strip_drop_malformed(Tail(entries), marker)
       ELSE strip_drop_malformed(Tail(entries), marker)

RECURSIVE strip(_, _)
strip(entries, marker) ==
  IF entries = << >> THEN << >>
  ELSE IF ~AnyCommandHas(Head(entries), marker)
       THEN << Head(entries) >> \o strip(Tail(entries), marker)
       ELSE strip(Tail(entries), marker)

\* the approve marker stripped from the array of every event name
remove_our_hooks_everywhere(hooks) ==
  LET h0 == DictSetDefault(DictSetDefault(hooks, "PreToolUse", << >>), "Stop", << >>)
  IN  [ i \in 1 .. Len(h0) |->
          [k |-> h0[i].k,
           v |-> strip(h0[i].v, IF h0[i].k = "Stop" THEN StopMarker ELSE ApproveMarker)] ]

\* the two keys made sure of, nothing stripped
remove_our_hooks_keep(hooks) ==
  DictSetDefault(DictSetDefault(hooks, "PreToolUse", << >>), "Stop", << >>)

\* the strip applied to the event arrays that are there, no key added
remove_our_hooks_present_only(hooks) ==
  [ i \in 1 .. Len(hooks) |->
      [k |-> hooks[i].k,
       v |-> IF hooks[i].k = "PreToolUse" THEN strip(hooks[i].v, ApproveMarker)
             ELSE IF hooks[i].k = "Stop" THEN strip(hooks[i].v, StopMarker)
             ELSE hooks[i].v] ]

remove_our_hooks(hooks) ==
  LET h1 == DictSet(hooks, "PreToolUse",
                    strip(DictGet(hooks, "PreToolUse", << >>), ApproveMarker))
  IN  DictSet(h1, "Stop", strip(DictGet(h1, "Stop", << >>), StopMarker))

\* merge_hook_config raises on a settings value it cannot treat as a dict
\* (hooks.get on None): TRUE when lines 233-240 and 286-287 run through
HooksIsDict(doc) == DictGet(doc, "hooks", JObj(<< >>)).t = "obj"

\* hooks.setdefault(event, []).append(entry)
AppendEntry(hooks, event, entry) ==
  LET h == DictSetDefault(hooks, event, << >>)
  IN  DictSet(h, event, Append(Lookup(h, event), entry))

\* the merge with the canonical entries appended and nothing stripped first
MergedSettings_append_only(doc) ==
  LET s1 == DictSetDefault(doc, "hooks", JObj(<< >>))
      h2 == AppendEntry(Lookup(s1, "hooks").o, "PreToolUse", HOOK_ENTRY)
      h3 == AppendEntry(h2, "Stop", STOP_HOOK_ENTRY)
  IN  DictSet(s1, "hooks", JObj(h3))

\* the in-memory part of merge_hook_config: settings after lines 233-240
MergedSettings(doc) ==
  LET s1 == DictSetDefault(doc, "hooks", JObj(<< >>))
      h0 == Lookup(s1, "hooks").o
      h1 == remove_our_hooks(h0)
      h2 == AppendEntry(h1, "PreToolUse", HOOK_ENTRY)
      h3 == AppendEntry(h2, "Stop", STOP_HOOK_ENTRY)
  IN  DictSet(s1, "hooks", JObj(h3))

\* the uninstall edit with the Stop array alone stripped
StrippedSettings_stop_only(doc) ==
  LET s1 == DictSetDefault(doc, "hooks", JObj(<< >>))
      h0 == Lookup(s1, "hooks").o
      h1 == DictSetDefault(h0, "PreToolUse", << >>)
  IN  DictSet(s1, "hooks", JObj(DictSet(h1, "Stop", strip(DictGet(h1, "Stop", << >>), StopMarker))))

\* the in-memory part of uninstall_hooks: settings after lines 286-287
StrippedSettings(doc) ==
  LET s1 == DictSetDefault(doc, "hooks", JObj(<< >>))
  IN  DictSet(s1, "hooks", JObj(remove_our_hooks(Lookup(s1, "hooks").o)))

(***************************************************************************)
(* Files.  A file is [exists, bytes]; bytes is a sequence of blocks.  The  *)
(* serialisation of a document is NChunks blocks [d, f, i]: block i of     *)
(* document d in formatting f ("indent2" is json.dump(indent=2) + "\n",    *)
(* "custom" is any other layout a user or tool wrote).                     *)
(***************************************************************************)
NoFile == [exists |-> FALSE, bytes |-> << >>]

Block(d, f, i) == [d |-> d, f |-> f, i |-> i]

\* a block of zero bytes left by a write past the end of the file
HoleBlock == [d |-> << >>, f |-> "hole", i |-> 0]

\* a block that is not JSON text
JunkBlock == [d |-> << >>, f |-> "junk", i |-> 0]

\* the text json.dump(data, f, indent=2); f.write("\n") produces
JsonDump(doc) == [i \in 1 .. NChunks |-> Block(doc, "indent2", i)]

\* the same document in some other layout
CustomText(doc) == [i \in 1 .. NChunks |-> Block(doc, "custom", i)]

\* json.load succeeds on the text
IsJson(bytes) ==
  /\ Len(bytes) = NChunks
  /\ bytes[1].f \in {"indent2", "custom"}
  /\ \A i \in 1 .. NChunks :
       /\ bytes[i].i = i
       /\ bytes[i].d = bytes[1].d
       /\ bytes[i].f = bytes[1].f

\* json.load(f), for a text on which it succeeds
JsonLoad(bytes) == bytes[1].d

\* the bytes after write(block) at block offset pos
WriteAt(bytes, pos, block) ==
  [ i \in 1 .. (IF pos > Len(bytes) THEN pos ELSE Len(bytes)) |->
      IF i = pos THEN block
      ELSE IF i <= Len(bytes) THEN bytes[i] ELSE HoleBlock ]

\* the paths of a list, as a set
PathSet(paths) == { paths[i] : i \in 1 .. Len(paths) }

NoManifest == [exists |-> FALSE, complete |-> FALSE, paths |-> << >>]

(***************************************************************************)
(* Settings documents a run can find.                                      *)
(***************************************************************************)
EchoCommand == << "e", "c", "h", "o", " ", "h", "i" >>

SayCommand == << "s", "a", "y", " ", "d", "o", "n", "e" >>

OldApproveCommand ==
  << "/", "o", "p", "t", "/", "o", "l", "d", "/", "c", "l", "a", "u", "d", "e",
     "-", "a", "p", "p", "r", "o", "v", "e", ".", "s", "h" >>

\* a user's own hook
UserEntry ==
  [ hooks |-> << [command |-> EchoCommand, type |-> "command"] >>, matcher |-> "Bash" ]

\* what an older installer wrote: other matcher, timeout and command path
StaleApprove ==
  [ hooks |-> << [command |-> OldApproveCommand, timeout |-> 300, type |-> "command"] >>,
    matcher |-> "^(Bash|Edit)$" ]

\* a user's descriptor sharing an entry with the installer's command
MixedEntry ==
  [ hooks |-> << [command |-> EchoCommand, type |-> "command"],
                 [command |-> ApproveCommand, timeout |-> 600, type |-> "command"] >>,
    matcher |-> "Bash" ]

\* entries another tool left malformed
NoHooksEntry == [matcher |-> "Edit"]

NoCommandEntry == [hooks |-> << [type |-> "command", timeout |-> 5] >>]

UserStop == [hooks |-> << [command |-> SayCommand, type |-> "command"] >>]

StaleStop ==
  [hooks |-> << [command |-> StopCommand, timeout |-> 10, type |-> "command"] >>]

PreCandidates ==
  { UserEntry, StaleApprove, MixedEntry, NoHooksEntry, NoCommandEntry, HOOK_ENTRY,
    StaleStop }

StopCandidates == { UserStop, StaleStop, StaleApprove }

\* all lists of at most n elements of S
ListsUpTo(S, n) == UNION { [1 .. k -> S] : k \in 0 .. n }

(***************************************************************************)
(* State.                                                                  *)
(***************************************************************************)
VARIABLES
  hookFile,        \* content of each path under ~/.claude: absent, dist, partial, built
  manifest,        \* ~/.claude/hooks/.permit-manifest
  settingsFile,    \* ~/.claude/settings.json
  tmpFile,         \* ~/.claude/settings.json.tmp
  fdPath,          \* per process: the name its open temp-file descriptor's inode has now
  pc,              \* per process: position in main()
  idx,             \* per process: loop index / number of the next block to write
  settings,        \* per process: the local `settings` of merge_hook_config / uninstall_hooks
  installed_files, \* per process: the local `installed_files` of uninstall_hooks
  exitCode,        \* per process: exit status of the finished run, -1 while none
  run,             \* per process: record of what the current run has done (history)
  origSettings,    \* settings.json before the first run (history)
  everWritten,     \* paths some run has placed (history)
  mergesInRow,     \* merge_hook_config writes since the last other write, capped at 2 (history)
  intendedDocs,    \* documents some run has begun to write to the temp file (history)
  env,             \* facts of the machine: source files the clone lacks, the CPU
  runs             \* number of runs started

fsVars == << hookFile, manifest, settingsFile, tmpFile, fdPath >>
procVars == << pc, idx, settings, installed_files, exitCode >>
histVars == << run, origSettings, env, runs, everWritten, mergesInRow, intendedDocs >>
vars == << hookFile, manifest, settingsFile, tmpFile, fdPath, pc, idx, settings,
           installed_files, exitCode, run, origSettings, everWritten, mergesInRow,
           intendedDocs, env, runs >>

Procs == {1, 2}

Paths == PathSet(HOOK_FILES)

NoRun ==
  [ mode |-> "", startSettings |-> NoFile, loaded |-> << >>, placed |-> {},
    unavailable |-> FALSE, wroteManifest |-> FALSE, wroteConfig |-> FALSE,
    tmpStarted |-> FALSE, rebuilt |-> {}, buildFailed |-> FALSE,
    snapFiles |-> [f \in Paths |-> "absent"], snapManifest |-> NoManifest,
    cause |-> "", source |-> "",
    startFiles |-> [f \in Paths |-> "absent"], startManifest |-> NoManifest,
    prev |-> [mode |-> "", code |-> -1, source |-> ""] ]

(***************************************************************************)
(* Steps of a run.  Exclusive(p) is the caller's promise that no other     *)
(* installer process is running; the sequential specifications start runs  *)
(* under it, the concurrent one does not.                                  *)
(***************************************************************************)
Stopped(p) == pc[p] \in {"idle", "exit"}

Exclusive(p) == \A q \in Procs \ {p} : Stopped(q)

\* the run of p ends: SystemExit, an uncaught exception, a signal, or return from main
Exit(p, code, cause) ==
  /\ pc' = [pc EXCEPT ![p] = "exit"]
  /\ exitCode' = [exitCode EXCEPT ![p] = code]
  /\ fdPath' = [fdPath EXCEPT ![p] = "none"]
  /\ run' = [run EXCEPT ![p].cause = cause]

\* a fresh process image entering main(); what it finds under ~/.claude is
\* put down for a run that starts with no other run in progress
Enter(p, mode, at) ==
  /\ Stopped(p)
  /\ pc' = [pc EXCEPT ![p] = at]
  /\ idx' = [idx EXCEPT ![p] = 1]
  /\ settings' = [settings EXCEPT ![p] = << >>]
  /\ installed_files' = [installed_files EXCEPT ![p] = << >>]
  /\ exitCode' = [exitCode EXCEPT ![p] = -1]
  /\ run' = [run EXCEPT ![p] =
               [NoRun EXCEPT !.mode = mode,
                             !.startSettings = settingsFile,
                             !.startFiles = IF Exclusive(p) THEN hookFile ELSE @,
                             !.startManifest = IF Exclusive(p) THEN manifest ELSE @,
                             !.source = IF at = "download_hooks_remote" THEN "remote"
                                        ELSE IF at = "copy_hooks_local" THEN "copy" ELSE "",
                             !.prev = IF Exclusive(p)
                                      THEN [mode |-> run[p].mode, code |-> exitCode[p],
                                            source |-> run[p].source]
                                      ELSE @]]
  /\ runs < MaxRuns
  /\ runs' = runs + 1
  /\ UNCHANGED << fsVars, origSettings, env, everWritten, mergesInRow, intendedDocs >>

\* main() without --uninstall; is_local() is a fact of where the script lies
main_install(p) ==
  \E local \in BOOLEAN :
    Enter(p, "install", IF local THEN "copy_hooks_local" ELSE "download_hooks_remote")

\* main() with --uninstall
main_uninstall(p) == Enter(p, "uninstall", "uninstall_hooks")

\* merge_hook_config() called on its own
call_merge_hook_config(p) == Enter(p, "install", "merge_hook_config")

\* copy_hooks_local, lines 109-116: src_root == dst_root goes straight to write_manifest
copy_hooks_local(p) ==
  /\ pc[p] = "copy_hooks_local"
  /\ \E same \in BOOLEAN :
       /\ pc' = [pc EXCEPT ![p] = IF same THEN "write_manifest" ELSE "copy_loop"]
       /\ run' = [run EXCEPT ![p].source = IF same THEN "inplace" ELSE @]
  /\ UNCHANGED << fsVars, idx, settings, installed_files, exitCode, origSettings, env, runs,
                  everWritten, mergesInRow, intendedDocs >>

\* copy_hooks_local, lines 117-123: one iteration; a missing source is skipped
copy_loop(p) ==
  /\ pc[p] = "copy_loop"
  /\ IF idx[p] > Len(HOOK_FILES)
     THEN /\ pc' = [pc EXCEPT ![p] = "write_manifest"]
          /\ UNCHANGED << fsVars, idx, settings, installed_files, exitCode, histVars >>
     ELSE LET rel == HOOK_FILES[idx[p]] IN
          LET found == rel \notin env.missing IN
            /\ idx' = [idx EXCEPT ![p] = @ + 1]
            /\ IF found
               THEN /\ hookFile' = [hookFile EXCEPT ![rel] = "dist"]
                    /\ run' = [run EXCEPT ![p].placed = @ \cup {rel}]
                    /\ everWritten' = everWritten \cup {rel}
               ELSE /\ run' = [run EXCEPT ![p].unavailable = TRUE]
                    /\ UNCHANGED << hookFile, everWritten >>
            /\ UNCHANGED << manifest, settingsFile, tmpFile, fdPath, pc, settings,
                            installed_files, exitCode, origSettings, env, runs, mergesInRow,
                            intendedDocs >>

\* the download loop with a path that is already there left as it is
download_loop_skip_existing(p) ==
  /\ pc[p] = "download_hooks_remote"
  /\ IF idx[p] > Len(HOOK_FILES)
     THEN /\ pc' = [pc EXCEPT ![p] = "chmod"]
          /\ UNCHANGED << fsVars, idx, settings, installed_files, exitCode, histVars >>
     ELSE LET rel == HOOK_FILES[idx[p]] IN
          \E got \in (IF hookFile[rel] = "absent" THEN {"ok", "refused", "cut"} ELSE {"skip"}) :
            IF got \in {"ok", "skip"}
            THEN /\ hookFile' = IF got = "ok" THEN [hookFile EXCEPT ![rel] = "dist"]
                                ELSE hookFile
                 /\ idx' = [idx EXCEPT ![p] = @ + 1]
                 /\ run' = [run EXCEPT ![p].placed = @ \cup {rel}]
                 /\ everWritten' = everWritten \cup {rel}
                 /\ UNCHANGED << manifest, settingsFile, tmpFile, fdPath, pc, settings,
                                 installed_files, exitCode, origSettings, env, runs, mergesInRow,
                                 intendedDocs >>
            ELSE /\ hookFile' = IF got = "cut" THEN [hookFile EXCEPT ![rel] = "partial"]
                                ELSE hookFile
                 /\ pc' = [pc EXCEPT ![p] = "exit"]
                 /\ exitCode' = [exitCode EXCEPT ![p] = 1]
                 /\ run' = [run EXCEPT ![p].unavailable = TRUE, ![p].cause = "download"]
                 /\ UNCHANGED << manifest, settingsFile, tmpFile, fdPath, idx, settings,
                                 installed_files, origSettings, env, runs, everWritten, mergesInRow,
                                 intendedDocs >>

\* download_hooks_remote, lines 135-143: one iteration; a failed urlretrieve
\* may have written part of the file before it raises
download_loop(p) ==
  /\ pc[p] = "download_hooks_remote"
  /\ IF idx[p] > Len(HOOK_FILES)
     THEN /\ pc' = [pc EXCEPT ![p] = "chmod"]
          /\ UNCHANGED << fsVars, idx, settings, installed_files, exitCode, histVars >>
     ELSE LET rel == HOOK_FILES[idx[p]] IN
          \E got \in {"ok", "refused", "cut"} :
            IF got = "ok"
            THEN /\ hookFile' = [hookFile EXCEPT ![rel] = "dist"]
                 /\ idx' = [idx EXCEPT ![p] = @ + 1]
                 /\ run' = [run EXCEPT ![p].placed = @ \cup {rel}]
                 /\ everWritten' = everWritten \cup {rel}
                 /\ UNCHANGED << manifest, settingsFile, tmpFile, fdPath, pc, settings,
                                 installed_files, exitCode, origSettings, env, runs, mergesInRow,
                                 intendedDocs >>
            ELSE /\ hookFile' = IF got = "cut" THEN [hookFile EXCEPT ![rel] = "partial"]
                                ELSE hookFile
                 /\ pc' = [pc EXCEPT ![p] = "exit"]
                 /\ exitCode' = [exitCode EXCEPT ![p] = 1]
                 /\ run' = [run EXCEPT ![p].unavailable = TRUE, ![p].cause = "download"]
                 /\ UNCHANGED << manifest, settingsFile, tmpFile, fdPath, idx, settings,
                                 installed_files, origSettings, env, runs, everWritten, mergesInRow,
                                 intendedDocs >>

\* download_hooks_remote, lines 145-148: os.stat raises on a path that is gone
chmod(p) ==
  /\ pc[p] = "chmod"
  /\ IF \A i \in 1 .. Len(EXECUTABLES) : hookFile[EXECUTABLES[i]] # "absent"
     THEN /\ pc' = [pc EXCEPT ![p] = "write_manifest"]
          /\ UNCHANGED << fdPath, exitCode, run >>
     ELSE Exit(p, 1, "stat")
  /\ UNCHANGED << hookFile, manifest, settingsFile, tmpFile, idx, settings,
                  installed_files, origSettings, env, runs, everWritten, mergesInRow, intendedDocs >>

\* write_manifest, line 98: open(MANIFEST, "w") creates or truncates
write_manifest(p) ==
  /\ pc[p] = "write_manifest"
  /\ manifest' = [exists |-> TRUE, complete |-> FALSE, paths |-> << >>]
  /\ pc' = [pc EXCEPT ![p] = "manifest_dump"]
  /\ UNCHANGED << hookFile, settingsFile, tmpFile, fdPath, idx, settings,
                  installed_files, exitCode, histVars >>

\* write_manifest, lines 99-100, always called with HOOK_FILES
manifest_dump(p) ==
  /\ pc[p] = "manifest_dump"
  /\ manifest' = [exists |-> TRUE, complete |-> TRUE, paths |-> HOOK_FILES]
  /\ pc' = [pc EXCEPT ![p] = "needs_recompile"]
  /\ run' = [run EXCEPT ![p].wroteManifest = TRUE, ![p].snapFiles = hookFile,
                        ![p].snapManifest = manifest']
  /\ UNCHANGED << hookFile, settingsFile, tmpFile, fdPath, idx, settings,
                  installed_files, exitCode, origSettings, env, runs, everWritten, mergesInRow,
                  intendedDocs >>

\* main, line 309: needs_recompile() is a fact of the machine
needs_recompile(p) ==
  /\ pc[p] = "needs_recompile"
  /\ pc' = [pc EXCEPT ![p] = IF env.arm64 THEN "merge_hook_config" ELSE "recompile_binaries"]
  /\ UNCHANGED << fsVars, idx, settings, installed_files, exitCode, histVars >>

\* the failure path with a rollback that removes the manifest
recompile_binaries_rollback(p) ==
  /\ pc[p] = "recompile_binaries"
  /\ manifest' = NoManifest
  /\ pc' = [pc EXCEPT ![p] = "exit"]
  /\ exitCode' = [exitCode EXCEPT ![p] = 1]
  /\ run' = [run EXCEPT ![p].cause = "build", ![p].buildFailed = TRUE]
  /\ UNCHANGED << hookFile, settingsFile, tmpFile, fdPath, idx, settings, installed_files,
                  origSettings, env, runs, everWritten, mergesInRow, intendedDocs >>

\* recompile_binaries, lines 159-171, and main, lines 310-315: no swiftc, exit 1
recompile_binaries(p) ==
  /\ pc[p] = "recompile_binaries"
  /\ \E swiftc \in BOOLEAN :
       IF swiftc
       THEN /\ pc' = [pc EXCEPT ![p] = "compile_loop"]
            /\ idx' = [idx EXCEPT ![p] = 1]
            /\ UNCHANGED << fdPath, exitCode, run >>
       ELSE /\ pc' = [pc EXCEPT ![p] = "exit"]
            /\ exitCode' = [exitCode EXCEPT ![p] = 1]
            /\ run' = [run EXCEPT ![p].cause = "build", ![p].buildFailed = TRUE]
            /\ UNCHANGED << fdPath, idx >>
  /\ UNCHANGED << hookFile, manifest, settingsFile, tmpFile, settings, installed_files,
                  origSettings, env, runs, everWritten, mergesInRow, intendedDocs >>

\* recompile_binaries, lines 173-183: one swiftc run; it can succeed only on a
\* complete source file, and writes its -o path when it does; a run that fails
\* writes nothing, and main exits 1
compile_loop(p) ==
  /\ pc[p] = "compile_loop"
  /\ IF idx[p] > Len(SWIFT_BINARIES)
     THEN /\ pc' = [pc EXCEPT ![p] = "merge_hook_config"]
          /\ UNCHANGED << fsVars, idx, settings, installed_files, exitCode, histVars >>
     ELSE LET b == SWIFT_BINARIES[idx[p]] IN
          \E rc \in (IF hookFile[b.src] = "dist" THEN {0, 1} ELSE {1}) :
            IF rc = 0
            THEN /\ hookFile' = [hookFile EXCEPT ![b.dst] = "built"]
                 /\ idx' = [idx EXCEPT ![p] = @ + 1]
                 /\ run' = [run EXCEPT ![p].rebuilt = @ \cup {b.dst}]
                 /\ UNCHANGED << manifest, settingsFile, tmpFile, fdPath, pc, settings,
                                 installed_files, exitCode, origSettings, env, runs,
                                 everWritten, mergesInRow, intendedDocs >>
            ELSE /\ pc' = [pc EXCEPT ![p] = "exit"]
                 /\ exitCode' = [exitCode EXCEPT ![p] = 1]
                 /\ run' = [run EXCEPT ![p].buildFailed = TRUE, ![p].cause = "build"]
                 /\ UNCHANGED << hookFile, manifest, settingsFile, tmpFile, fdPath, idx,
                                 settings, installed_files, origSettings, env, runs,
                                 everWritten, mergesInRow, intendedDocs >>

\* the load with invalid JSON taken for an empty document
merge_hook_config_discards(p) ==
  /\ pc[p] = "merge_hook_config"
  /\ LET doc == IF settingsFile.exists /\ IsJson(settingsFile.bytes)
                THEN JsonLoad(settingsFile.bytes) ELSE << >>
     IN  /\ HooksIsDict(doc)
         /\ run' = [run EXCEPT ![p].loaded = doc]
         /\ settings' = [settings EXCEPT ![p] = MergedSettings(doc)]
         /\ pc' = [pc EXCEPT ![p] = "_atomic_write_json"]
  /\ UNCHANGED << hookFile, manifest, settingsFile, tmpFile, fdPath, idx, installed_files,
                  exitCode, origSettings, env, runs, everWritten, mergesInRow,
                  intendedDocs >>

\* merge_hook_config, lines 222-240: load (an absent file is {}, invalid JSON is
\* SystemExit(1)), then the in-memory edit, which raises on a "hooks" value
\* that is no dict
merge_hook_config(p) ==
  /\ pc[p] = "merge_hook_config"
  /\ IF settingsFile.exists /\ ~IsJson(settingsFile.bytes)
     THEN Exit(p, 1, "invalid_json") /\ UNCHANGED settings
     ELSE LET doc == IF settingsFile.exists THEN JsonLoad(settingsFile.bytes) ELSE << >>
          IN  /\ run' = [run EXCEPT ![p].loaded = doc,
                                    ![p].cause = IF HooksIsDict(doc) THEN @ ELSE "type_error"]
              /\ IF HooksIsDict(doc)
                 THEN /\ settings' = [settings EXCEPT ![p] = MergedSettings(doc)]
                      /\ pc' = [pc EXCEPT ![p] = "_atomic_write_json"]
                      /\ UNCHANGED exitCode
                 ELSE /\ pc' = [pc EXCEPT ![p] = "exit"]
                      /\ exitCode' = [exitCode EXCEPT ![p] = 1]
                      /\ UNCHANGED settings
              /\ UNCHANGED fdPath
  /\ UNCHANGED << hookFile, manifest, settingsFile, tmpFile, idx, installed_files,
                  origSettings, env, runs, everWritten, mergesInRow, intendedDocs >>

\* the configuration step of uninstall with a missing settings.json taken for {}
strip_settings_creates(p) ==
  /\ pc[p] = "strip_settings"
  /\ IF settingsFile.exists /\ ~IsJson(settingsFile.bytes)
     THEN Exit(p, 1, "invalid_json") /\ UNCHANGED settings
     ELSE LET doc == IF settingsFile.exists THEN JsonLoad(settingsFile.bytes) ELSE << >>
          IN  /\ run' = [run EXCEPT ![p].loaded = doc,
                                    ![p].cause = IF HooksIsDict(doc) THEN @ ELSE "type_error"]
              /\ IF HooksIsDict(doc)
                 THEN /\ settings' = [settings EXCEPT ![p] = StrippedSettings(doc)]
                      /\ pc' = [pc EXCEPT ![p] = "_atomic_write_json"]
                      /\ UNCHANGED exitCode
                 ELSE /\ pc' = [pc EXCEPT ![p] = "exit"]
                      /\ exitCode' = [exitCode EXCEPT ![p] = 1]
                      /\ UNCHANGED settings
              /\ UNCHANGED fdPath
  /\ UNCHANGED << hookFile, manifest, settingsFile, tmpFile, idx, installed_files,
                  origSettings, env, runs, everWritten, mergesInRow, intendedDocs >>

\* uninstall_hooks, lines 276-291: no settings.json, nothing to update; else as
\* merge_hook_config with the strip alone
strip_settings(p) ==
  /\ pc[p] = "strip_settings"
  /\ IF ~settingsFile.exists
     THEN Exit(p, 0, "") /\ UNCHANGED settings
     ELSE IF ~IsJson(settingsFile.bytes)
     THEN Exit(p, 1, "invalid_json") /\ UNCHANGED settings
     ELSE LET doc == JsonLoad(settingsFile.bytes)
          IN  /\ run' = [run EXCEPT ![p].loaded = doc,
                                    ![p].cause = IF HooksIsDict(doc) THEN @ ELSE "type_error"]
              /\ IF HooksIsDict(doc)
                 THEN /\ settings' = [settings EXCEPT ![p] = StrippedSettings(doc)]
                      /\ pc' = [pc EXCEPT ![p] = "_atomic_write_json"]
                      /\ UNCHANGED exitCode
                 ELSE /\ pc' = [pc EXCEPT ![p] = "exit"]
                      /\ exitCode' = [exitCode EXCEPT ![p] = 1]
                      /\ UNCHANGED settings
              /\ UNCHANGED fdPath
  /\ UNCHANGED << hookFile, manifest, settingsFile, tmpFile, idx, installed_files,
                  origSettings, env, runs, everWritten, mergesInRow, intendedDocs >>

\* the write with settings.json itself opened for writing
write_json_in_place(p) ==
  /\ pc[p] = "_atomic_write_json"
  /\ settingsFile' = [exists |-> TRUE, bytes |-> << >>]
  /\ fdPath' = [fdPath EXCEPT ![p] = "settings"]
  /\ idx' = [idx EXCEPT ![p] = 1]
  /\ pc' = [pc EXCEPT ![p] = "json_dump"]
  /\ run' = [run EXCEPT ![p].tmpStarted = TRUE]
  /\ intendedDocs' = intendedDocs \cup {settings[p]}
  /\ UNCHANGED << hookFile, manifest, tmpFile, settings, installed_files, exitCode,
                  origSettings, env, runs, everWritten, mergesInRow >>

\* _atomic_write_json, line 192: open(tmp, "w") creates the temp file or
\* truncates the one that is there, whoever else has it open
_atomic_write_json(p) ==
  /\ pc[p] = "_atomic_write_json"
  /\ tmpFile' = [exists |-> TRUE, bytes |-> << >>]
  /\ fdPath' = [fdPath EXCEPT ![p] = "tmp"]
  /\ idx' = [idx EXCEPT ![p] = 1]
  /\ pc' = [pc EXCEPT ![p] = "json_dump"]
  /\ run' = [run EXCEPT ![p].tmpStarted = TRUE]
  /\ intendedDocs' = intendedDocs \cup {settings[p]}
  /\ UNCHANGED << hookFile, manifest, settingsFile, settings, installed_files, exitCode,
                  origSettings, env, runs, everWritten, mergesInRow >>

\* _atomic_write_json, lines 193-194: one write() of the next block through the
\* descriptor, into whichever file its inode is now; the last one closes
json_dump(p) ==
  /\ pc[p] = "json_dump"
  /\ LET block == JsonDump(settings[p])[idx[p]] IN
       /\ tmpFile' = IF fdPath[p] = "tmp"
                     THEN [tmpFile EXCEPT !.bytes = WriteAt(@, idx[p], block)]
                     ELSE tmpFile
       /\ settingsFile' = IF fdPath[p] = "settings"
                          THEN [settingsFile EXCEPT !.bytes = WriteAt(@, idx[p], block)]
                          ELSE settingsFile
  /\ IF idx[p] = NChunks
     THEN /\ pc' = [pc EXCEPT ![p] = "os_replace"]
          /\ fdPath' = [fdPath EXCEPT ![p] = "none"]
          /\ UNCHANGED idx
     ELSE /\ idx' = [idx EXCEPT ![p] = @ + 1]
          /\ UNCHANGED << pc, fdPath >>
  /\ UNCHANGED << hookFile, manifest, settings, installed_files, exitCode, histVars >>

\* an open descriptor follows its inode: the temp file's becomes settings.json's,
\* and the replaced settings.json has no name any more
Renamed(at) == IF at = "tmp" THEN "settings" ELSE IF at = "settings" THEN "unlinked" ELSE at

\* _atomic_write_json, line 195, and the return to the caller, which prints and
\* ends the run; os.replace raises when the temp file is gone
os_replace(p) ==
  /\ pc[p] = "os_replace"
  /\ pc' = [pc EXCEPT ![p] = "exit"]
  /\ IF tmpFile.exists
     THEN /\ settingsFile' = tmpFile
          /\ tmpFile' = NoFile
          /\ fdPath' = [q \in Procs |-> Renamed(fdPath[q])]
          /\ exitCode' = [exitCode EXCEPT ![p] = 0]
          /\ run' = [run EXCEPT ![p].wroteConfig = TRUE]
          /\ mergesInRow' = IF run[p].mode = "install"
                            THEN (IF mergesInRow < 2 THEN mergesInRow + 1 ELSE 2)
                            ELSE 0
     ELSE /\ exitCode' = [exitCode EXCEPT ![p] = 1]
          /\ run' = [run EXCEPT ![p].cause = "replace"]
          /\ UNCHANGED << settingsFile, tmpFile, fdPath, mergesInRow >>
  /\ UNCHANGED << hookFile, manifest, idx, settings, installed_files, origSettings, env, runs,
                  everWritten, intendedDocs >>

\* the start of uninstall with the static list taken whatever the manifest says
uninstall_hooks_static(p) ==
  /\ pc[p] = "uninstall_hooks"
  /\ installed_files' = [installed_files EXCEPT ![p] = HOOK_FILES]
  /\ idx' = [idx EXCEPT ![p] = 1]
  /\ pc' = [pc EXCEPT ![p] = "remove_loop"]
  /\ UNCHANGED << fsVars, settings, exitCode, histVars >>

\* uninstall_hooks, lines 250-256: json.load raises on a manifest cut short
uninstall_hooks(p) ==
  /\ pc[p] = "uninstall_hooks"
  /\ IF manifest.exists /\ ~manifest.complete
     THEN Exit(p, 1, "manifest") /\ UNCHANGED << installed_files, idx >>
     ELSE /\ installed_files' =
               [installed_files EXCEPT ![p] = IF manifest.exists THEN manifest.paths
                                              ELSE HOOK_FILES]
          /\ idx' = [idx EXCEPT ![p] = 1]
          /\ pc' = [pc EXCEPT ![p] = "remove_loop"]
          /\ UNCHANGED << fdPath, exitCode, run >>
  /\ UNCHANGED << hookFile, manifest, settingsFile, tmpFile, settings, origSettings, env, runs,
                  everWritten, mergesInRow, intendedDocs >>

\* the loop with os.remove called on every listed path, there or not:
\* FileNotFoundError ends the run
remove_loop_unguarded(p) ==
  /\ pc[p] = "remove_loop"
  /\ IF idx[p] > Len(installed_files[p])
     THEN /\ pc' = [pc EXCEPT ![p] = "remove_manifest"]
          /\ UNCHANGED << hookFile, idx, fdPath, exitCode, run >>
     ELSE IF hookFile[installed_files[p][idx[p]]] # "absent"
     THEN /\ hookFile' = [hookFile EXCEPT ![installed_files[p][idx[p]]] = "absent"]
          /\ idx' = [idx EXCEPT ![p] = @ + 1]
          /\ UNCHANGED << pc, fdPath, exitCode, run >>
     ELSE Exit(p, 1, "not_found") /\ UNCHANGED << hookFile, idx >>
  /\ UNCHANGED << manifest, settingsFile, tmpFile, settings, installed_files,
                  origSettings, env, runs, everWritten, mergesInRow, intendedDocs >>

\* uninstall_hooks, lines 259-265: one iteration; a path that is not there
\* goes to `missing` and nothing is removed
remove_loop(p) ==
  /\ pc[p] = "remove_loop"
  /\ IF idx[p] > Len(installed_files[p])
     THEN /\ pc' = [pc EXCEPT ![p] = "remove_manifest"]
          /\ UNCHANGED << hookFile, idx >>
     ELSE /\ hookFile' = IF hookFile[installed_files[p][idx[p]]] # "absent"
                         THEN [hookFile EXCEPT ![installed_files[p][idx[p]]] = "absent"]
                         ELSE hookFile
          /\ idx' = [idx EXCEPT ![p] = @ + 1]
          /\ UNCHANGED pc
  /\ UNCHANGED << manifest, settingsFile, tmpFile, fdPath, settings, installed_files,
                  exitCode, histVars >>

\* uninstall_hooks, lines 268-269
remove_manifest(p) ==
  /\ pc[p] = "remove_manifest"
  /\ manifest' = NoManifest
  /\ pc' = [pc EXCEPT ![p] = "strip_settings"]
  /\ UNCHANGED << hookFile, settingsFile, tmpFile, fdPath, idx, settings,
                  installed_files, exitCode, histVars >>

\* the process is killed, or an OSError nobody catches ends it
Die(p) ==
  /\ ~Stopped(p)
  /\ Exit(p, 1, "died")
  /\ UNCHANGED << hookFile, manifest, settingsFile, tmpFile, idx, settings,
                  installed_files, origSettings, env, runs, everWritten, mergesInRow, intendedDocs >>

(***************************************************************************)
(* Specifications.                                                         *)
(***************************************************************************)
\* a dict from its items
TopDoc(theme, hooks) ==
  (IF theme THEN << [k |-> "theme", v |-> JStr("dark")] >> ELSE << >>) \o hooks

HooksItem(o) == << [k |-> "hooks", v |-> JObj(o)] >>

Event(name, entries) == << [k |-> name, v |-> entries] >>

\* a document with stale, foreign and malformed entries around the installer's
RichDoc ==
  HooksItem(Event("Stop", << UserStop, StaleStop >>)
            \o Event("PostToolUse", << StaleApprove >>)
            \o Event("PreToolUse", << StaleApprove, UserEntry, MixedEntry >>))
    \o TopDoc(TRUE, << >>)

\* the documents of the runs that exercise the whole lifecycle
SampleDocs == { RichDoc }

\* documents for the runs that exercise the configuration rewrite: every
\* PreToolUse list and every Stop list up to MaxEntries, and the odd shapes
ConfigDocs ==
  { TopDoc(TRUE, HooksItem(Event("PostToolUse", << StaleApprove >>)
                           \o Event("PreToolUse", pre))) :
      pre \in ListsUpTo(PreCandidates, MaxEntries) }
    \cup { HooksItem(Event("Stop", stop) \o Event("PreToolUse", << UserEntry >>))
             \o TopDoc(TRUE, << >>) :
           stop \in ListsUpTo(StopCandidates, MaxEntries) }
    \cup { << >>, TopDoc(TRUE, << >>), TopDoc(TRUE, HooksItem(<< >>)),
           TopDoc(TRUE, << [k |-> "hooks", v |-> JNull] >>), RichDoc }

\* settings.json as a user's editor left it, unparseable, or not there
SettingsFiles(docs) ==
  { [exists |-> TRUE, bytes |-> CustomText(d)] : d \in docs }
    \cup { NoFile, [exists |-> TRUE, bytes |-> << JunkBlock >>] }

\* the files a clone is taken to lack: a binary, a Swift source
MissingCandidates == { "hooks/claude-approve", "hooks/claude-stop.swift" }

\* the machines: which HOOK_FILES the clone next to the script lacks, and
\* whether platform.machine() is arm64
Envs ==
  { [missing |-> m, arm64 |-> a] :
      m \in { x \in SUBSET MissingCandidates : Cardinality(x) <= MaxMissing }, a \in BOOLEAN }

InitWith(files, envs) ==
  /\ hookFile = [f \in Paths |-> "absent"]
  /\ manifest = NoManifest
  /\ settingsFile \in files
  /\ tmpFile = NoFile
  /\ fdPath = [p \in Procs |-> "none"]
  /\ pc = [p \in Procs |-> "idle"]
  /\ idx = [p \in Procs |-> 1]
  /\ settings = [p \in Procs |-> << >>]
  /\ installed_files = [p \in Procs |-> << >>]
  /\ exitCode = [p \in Procs |-> -1]
  /\ run = [p \in Procs |-> NoRun]
  /\ origSettings = settingsFile
  /\ env \in envs
  /\ runs = 0
  /\ everWritten = {}
  /\ mergesInRow = 0
  /\ intendedDocs = {}

\* the steps of main() after its first
Steps(p) ==
  \/ copy_hooks_local(p)
  \/ copy_loop(p)
  \/ download_loop(p)
  \/ chmod(p)
  \/ write_manifest(p)
  \/ manifest_dump(p)
  \/ needs_recompile(p)
  \/ recompile_binaries(p)
  \/ compile_loop(p)
  \/ merge_hook_config(p)
  \/ _atomic_write_json(p)
  \/ json_dump(p)
  \/ os_replace(p)
  \/ uninstall_hooks(p)
  \/ remove_loop(p)
  \/ remove_manifest(p)
  \/ strip_settings(p)
  \/ Die(p)

\* the steps the configuration rewrite takes
ConfigSteps(p) ==
  \/ merge_hook_config(p)
  \/ _atomic_write_json(p)
  \/ json_dump(p)
  \/ os_replace(p)
  \/ uninstall_hooks(p)
  \/ remove_loop(p)
  \/ remove_manifest(p)
  \/ strip_settings(p)
  \/ Die(p)

\* Spec: one installer process at a time, every step of main()
Init == InitWith(SettingsFiles(SampleDocs), Envs)

Next ==
  \E p \in {1} :
    \/ Exclusive(p) /\ main_install(p)
    \/ Exclusive(p) /\ main_uninstall(p)
    \/ Steps(p)

Spec == Init /\ [][Next]_vars

\* SpecConfig: one process at a time rewriting settings.json, by
\* merge_hook_config() or by main() with --uninstall, over many documents
Arm64Clone == [missing |-> {}, arm64 |-> TRUE]

InitConfig == InitWith(SettingsFiles(ConfigDocs), {Arm64Clone})

NextConfig ==
  \E p \in {1} :
    \/ Exclusive(p) /\ call_merge_hook_config(p)
    \/ Exclusive(p) /\ main_uninstall(p)
    \/ ConfigSteps(p)

SpecConfig == InitConfig /\ [][NextConfig]_vars

\* SpecConc: installer processes started at any time, also while another runs
InitConc ==
  InitWith(SettingsFiles({RichDoc}), { [missing |-> {}, arm64 |-> a] : a \in BOOLEAN })

NextConc ==
  \E p \in Procs :
    \/ main_install(p)
    \/ main_uninstall(p)
    \/ Steps(p)

SpecConc == InitConc /\ [][NextConc]_vars

\* SpecLife: the whole lifecycle, one process at a time, from an empty document
\* and from the document an install of an earlier release left, whose
\* PreToolUse entry has another matcher, timeout and command path
OldInstalledDoc ==
  HooksItem(Event("PreToolUse", << StaleApprove >>) \o Event("Stop", << STOP_HOOK_ENTRY >>))

InitLife ==
  InitWith({ [exists |-> TRUE, bytes |-> CustomText(<< >>)],
             [exists |-> TRUE, bytes |-> JsonDump(OldInstalledDoc)] },
           { [missing |-> { }, arm64 |-> a] : a \in BOOLEAN })

SpecLife == InitLife /\ [][Next]_vars

\* SpecRemove: one process at a time running main() with --uninstall over
\* whatever is under ~/.claude: any of the hook files there or not, and no
\* manifest, this release's manifest, a shorter one, or one cut short
ShortManifest == [exists |-> TRUE, complete |-> TRUE, paths |-> SubSeq(HOOK_FILES, 1, 2)]

Manifests ==
  { NoManifest, ShortManifest,
    [exists |-> TRUE, complete |-> TRUE, paths |-> HOOK_FILES],
    [exists |-> TRUE, complete |-> FALSE, paths |-> << >>] }

InitRemove ==
  /\ hookFile \in [Paths -> {"absent", "dist"}]
  /\ manifest \in Manifests
  /\ settingsFile \in SettingsFiles({RichDoc})
  /\ tmpFile = NoFile
  /\ fdPath = [p \in Procs |-> "none"]
  /\ pc = [p \in Procs |-> "idle"]
  /\ idx = [p \in Procs |-> 1]
  /\ settings = [p \in Procs |-> << >>]
  /\ installed_files = [p \in Procs |-> << >>]
  /\ exitCode = [p \in Procs |-> -1]
  /\ run = [p \in Procs |-> NoRun]
  /\ origSettings = settingsFile
  /\ env = Arm64Clone
  /\ runs = 0
  /\ everWritten = {}
  /\ mergesInRow = 0
  /\ intendedDocs = {}

RemoveSteps(p) ==
  \/ uninstall_hooks(p)
  \/ remove_loop(p)
  \/ remove_manifest(p)
  \/ strip_settings(p)
  \/ _atomic_write_json(p)
  \/ json_dump(p)
  \/ os_replace(p)
  \/ Die(p)

NextRemove ==
  \E p \in {1} :
    \/ Exclusive(p) /\ main_uninstall(p)
    \/ RemoveSteps(p)

SpecRemove == InitRemove /\ [][NextRemove]_vars

(***************************************************************************)
(* Vocabulary of the properties, stated apart from the operators above.    *)
(***************************************************************************)
\* m occurs in s at some offset, character by character
OccursIn(m, s) ==
  \E off \in 0 .. Len(s) :
    /\ off + Len(m) <= Len(s)
    /\ \A k \in 1 .. Len(m) : s[off + k] = m[k]

\* the entry has a command descriptor whose command string contains the marker
OwnedBy(e, marker) ==
  /\ "hooks" \in DOMAIN e
  /\ \E j \in DOMAIN e.hooks :
       /\ "command" \in DOMAIN e.hooks[j]
       /\ OccursIn(marker, e.hooks[j].command)

\* the positions of the entries the marker does not own
KeptAt(entries, marker) == { i \in 1 .. Len(entries) : ~OwnedBy(entries[i], marker) }

\* after is before without its owned entries, the rest in order and unmodified
IsBeforeWithoutOwned(after, before, marker) ==
  LET K == KeptAt(before, marker) IN
    /\ Len(after) = Cardinality(K)
    /\ \A i \in K : after[Cardinality({ j \in K : j <= i })] = before[i]

\* the marker of a managed event
MarkerOf(event) == IF event = "PreToolUse" THEN ApproveMarker ELSE StopMarker

Managed == {"PreToolUse", "Stop"}

KeysOf(d) == { d[i].k : i \in 1 .. Len(d) }

\* the "hooks" object of a document, empty when it has none
HooksObj(doc) ==
  IF HasKey(doc, "hooks") /\ Lookup(doc, "hooks").t = "obj"
  THEN Lookup(doc, "hooks").o ELSE << >>

\* the array under an event name, empty when there is none
EventArray(doc, event) == DictGet(HooksObj(doc), event, << >>)

\* the document a file holds, {} when there is no file
DocIn(file) == IF file.exists THEN JsonLoad(file.bytes) ELSE << >>

Readable(file) == ~file.exists \/ IsJson(file.bytes)

\* process p is between the first write to the temp file and os.replace
Rewriting(p) == run[p].tmpStarted /\ ~run[p].wroteConfig

(***************************************************************************)
(* C1.  Merge is idempotent: when merge_hook_config replaces settings.json *)
(* and the last write to it was also merge_hook_config's, the file is left *)
(* exactly as it was.                                                      *)
(***************************************************************************)
SecondMergeWrites(p) ==
  /\ run[p].mode = "install"
  /\ pc[p] = "os_replace"
  /\ run'[p].wroteConfig
  /\ mergesInRow >= 1

C1_MergeIdempotent ==
  [][\A p \in Procs : SecondMergeWrites(p) => settingsFile' = settingsFile]_vars

\* a second merge in a row has written, over a document that held owned entries
C1_Witness ==
  /\ mergesInRow = 2
  /\ origSettings.exists
  /\ IsJson(origSettings.bytes)
  /\ KeptAt(EventArray(DocIn(origSettings), "PreToolUse"), ApproveMarker)
       # DOMAIN EventArray(DocIn(origSettings), "PreToolUse")

(***************************************************************************)
(* C2.  Ownership precision: what remove_our_hooks leaves under PreToolUse *)
(* is the loaded array without the entries holding a command that contains *)
(* "claude-approve", and under Stop the loaded array without those holding *)
(* "claude-stop": the others in order and unmodified, whatever else they   *)
(* contain.                                                                *)
(***************************************************************************)
\* the array the edit has left under the event, before the canonical entry
\* merge_hook_config appends
StrippedArray(p, event) ==
  LET a == EventArray(settings[p], event) IN
    IF run[p].mode = "install" THEN SubSeq(a, 1, Len(a) - 1) ELSE a

C2_StripPrecision ==
  \A p \in Procs :
    pc[p] = "_atomic_write_json" =>
      \A event \in Managed :
        IsBeforeWithoutOwned(StrippedArray(p, event),
                             EventArray(run[p].loaded, event), MarkerOf(event))

\* uninstall has stripped a PreToolUse array holding an entry with a second,
\* owned descriptor and an entry of the other marker
C2_Witness ==
  \E p \in Procs :
    /\ pc[p] = "_atomic_write_json"
    /\ run[p].mode = "uninstall"
    /\ EventArray(run[p].loaded, "PreToolUse") = << MixedEntry, StaleStop >>
    /\ EventArray(settings[p], "PreToolUse") = << StaleStop >>

(***************************************************************************)
(* C3.  Upgrade convergence: when an install run has completed, each of    *)
(* PreToolUse and Stop holds exactly one entry owned by the event's marker *)
(* and that entry is the canonical one.                                    *)
(***************************************************************************)
OwnedAt(entries, marker) == DOMAIN entries \ KeptAt(entries, marker)

C3_UpgradeConvergence ==
  \A p \in Procs :
    (pc[p] = "exit" /\ exitCode[p] = 0 /\ run[p].mode = "install") =>
      /\ settingsFile.exists
      /\ IsJson(settingsFile.bytes)
      /\ LET pre == EventArray(DocIn(settingsFile), "PreToolUse")
             stop == EventArray(DocIn(settingsFile), "Stop")
         IN  /\ Cardinality(OwnedAt(pre, ApproveMarker)) = 1
             /\ \A i \in OwnedAt(pre, ApproveMarker) : pre[i] = HOOK_ENTRY
             /\ Cardinality(OwnedAt(stop, StopMarker)) = 1
             /\ \A i \in OwnedAt(stop, StopMarker) : stop[i] = STOP_HOOK_ENTRY

\* an install has completed over a document with two stale owned entries
C3_Witness ==
  \E p \in Procs :
    /\ pc[p] = "exit" /\ exitCode[p] = 0 /\ run[p].mode = "install"
    /\ Cardinality(OwnedAt(EventArray(run[p].loaded, "PreToolUse"), ApproveMarker)) = 2
    /\ HOOK_ENTRY \notin PathSet(EventArray(run[p].loaded, "PreToolUse"))

(***************************************************************************)
(* C4.  Frame of the rewrite: whatever runs have happened, settings.json   *)
(* holds every top-level key other than "hooks", every array of an event   *)
(* other than PreToolUse and Stop, and every entry of PreToolUse and Stop  *)
(* that the event's marker does not own, as the original document did.     *)
(***************************************************************************)
\* the entries the marker does not own, in order
NonOwned(entries, marker) ==
  LET K == KeptAt(entries, marker) IN
    [ j \in 1 .. Cardinality(K) |->
        entries[CHOOSE i \in K : Cardinality({ x \in K : x <= i }) = j] ]

\* the two dicts have the same keys outside `except`, with the same values
SameOutside(a, b, except) ==
  \A k \in (KeysOf(a) \cup KeysOf(b)) \ except :
    HasKey(a, k) /\ HasKey(b, k) /\ Lookup(a, k) = Lookup(b, k)

C4_Frame ==
  (Readable(origSettings) /\ settingsFile.exists /\ IsJson(settingsFile.bytes)) =>
    LET o == DocIn(origSettings)
        c == DocIn(settingsFile)
    IN  /\ SameOutside(o, c, {"hooks"})
        /\ SameOutside(HooksObj(o), HooksObj(c), Managed)
        /\ \A e \in Managed :
             NonOwned(EventArray(c, e), MarkerOf(e)) = NonOwned(EventArray(o, e), MarkerOf(e))

\* an uninstall has rewritten what an install wrote over the rich document
C4_Witness ==
  /\ origSettings = [exists |-> TRUE, bytes |-> CustomText(RichDoc)]
  /\ Cardinality(intendedDocs) = 2
  /\ \E p \in Procs : run[p].mode = "uninstall" /\ run[p].wroteConfig

(***************************************************************************)
(* C5.  Atomic write under crash: from the first write to the temp file    *)
(* until os.replace has run, and after a run that ended in between,        *)
(* settings.json is byte for byte what it was when the run started.        *)
(***************************************************************************)
C5_AtomicUnderCrash ==
  \A p \in Procs : Rewriting(p) => settingsFile = run[p].startSettings

\* a run died with the temp file half written, settings.json still there
C5_Witness ==
  \E p \in Procs :
    /\ pc[p] = "exit" /\ exitCode[p] = 1 /\ Rewriting(p)
    /\ tmpFile.exists /\ Len(tmpFile.bytes) \in 1 .. (NChunks - 1)
    /\ settingsFile.exists /\ IsJson(settingsFile.bytes)

(***************************************************************************)
(* C6.  Concurrent runs: settings.json is at every moment the original     *)
(* file or the complete json.dump text of a document some run set out to   *)
(* write.                                                                  *)
(***************************************************************************)
C6_NeverPartial ==
  \/ settingsFile = origSettings
  \/ \E d \in intendedDocs : settingsFile = [exists |-> TRUE, bytes |-> JsonDump(d)]

(***************************************************************************)
(* C7.  Invalid configuration: a run that found settings.json unparseable  *)
(* never starts the temp file, leaves settings.json byte for byte as it    *)
(* was, and ends with exit status 1.                                       *)
(***************************************************************************)
FoundInvalid(p) ==
  /\ run[p].mode # ""
  /\ run[p].startSettings.exists
  /\ ~IsJson(run[p].startSettings.bytes)

C7_InvalidConfigNoWrite ==
  \A p \in Procs :
    FoundInvalid(p) =>
      /\ settingsFile = run[p].startSettings
      /\ ~run[p].tmpStarted
      /\ tmpFile = NoFile
      /\ pc[p] = "exit" => exitCode[p] = 1

\* uninstall reached its configuration step and gave up on invalid JSON
C7_Witness ==
  \E p \in Procs :
    /\ FoundInvalid(p)
    /\ pc[p] = "exit" /\ run[p].cause = "invalid_json" /\ run[p].mode = "uninstall"

(***************************************************************************)
(* C8.  The manifest is written only after every path of HOOK_FILES has    *)
(* been placed in the run, so an existing manifest lists only paths some   *)
(* run has written.                                                        *)
(***************************************************************************)
C8_ManifestAfterAllPlaced ==
  /\ \A p \in Procs :
       (pc[p] \in {"write_manifest", "manifest_dump"} \/ run[p].wroteManifest)
         => run[p].placed = Paths
  /\ (manifest.exists /\ manifest.complete) => PathSet(manifest.paths) \subseteq everWritten

(***************************************************************************)
(* C9.  SourceUnavailable aborts before any write: once a required file    *)
(* could not be obtained, the run has exited with status 1 having written  *)
(* no hook file, no manifest and no configuration.                         *)
(***************************************************************************)
C9_UnavailableAbortsBeforeWrite ==
  \A p \in Procs :
    run[p].unavailable =>
      /\ pc[p] = "exit" /\ exitCode[p] = 1
      /\ run[p].placed = {}
      /\ \A f \in Paths : hookFile[f] = "absent"
      /\ ~run[p].wroteManifest
      /\ ~run[p].wroteConfig

(***************************************************************************)
(* C10.  Build failure is non-destructive.  As claimed: after a failed     *)
(* rebuild the run has exited with status 1 and every hook file placed in  *)
(* the run, and the manifest, are as they were when placement finished.    *)
(* As the code has it: the same, for the placed files that no swiftc run   *)
(* of this run has rebuilt before the failure.                             *)
(***************************************************************************)
IntactSincePlacement(p, files) ==
  /\ pc[p] = "exit" /\ exitCode[p] = 1
  /\ manifest = run[p].snapManifest
  /\ manifest.exists /\ manifest.complete
  /\ \A f \in files : hookFile[f] # "absent" /\ hookFile[f] = run[p].snapFiles[f]

UninstalledAfterInstall(p) ==
  /\ pc[p] = "exit" /\ exitCode[p] = 0
  /\ run[p].mode = "uninstall" /\ run[p].wroteConfig
  /\ run[p].prev.mode = "install" /\ run[p].prev.code = 0

C11_RoundTripUninstall ==
  \A p \in Procs :
    (UninstalledAfterInstall(p) /\ Readable(origSettings)) =>
      /\ settingsFile.exists /\ IsJson(settingsFile.bytes)
      /\ \A e \in Managed :
           /\ EventArray(DocIn(settingsFile), e)
                = NonOwned(EventArray(DocIn(origSettings), e), MarkerOf(e))
           /\ OwnedAt(EventArray(DocIn(settingsFile), e), MarkerOf(e)) = {}

\* the round trip over a document with a stale entry before a user's entry:
\* the uninstall loaded the canonical entry the install had appended
C11_Witness ==
  \E p \in Procs :
    /\ UninstalledAfterInstall(p)
    /\ EventArray(DocIn(origSettings), "PreToolUse") = << StaleApprove, UserEntry >>
    /\ EventArray(run[p].loaded, "PreToolUse") = << UserEntry, HOOK_ENTRY >>
    /\ EventArray(DocIn(settingsFile), "PreToolUse") = << UserEntry >>

(***************************************************************************)
(* C12.  Manifest-driven removal: an uninstall run changes no file other   *)
(* than by deleting a path its list names, the list being the manifest's   *)
(* when a manifest file exists and HOOK_FILES when none does; once its     *)
(* loop is through, every listed path is gone, and once the manifest step  *)
(* is through, so is the manifest.                                         *)
(***************************************************************************)
\* what the run is to delete, from the manifest it found
Listed(p) ==
  IF run[p].startManifest.exists THEN PathSet(run[p].startManifest.paths) ELSE Paths

\* the run has left the removal loop by its end
LoopDone(p) ==
  \/ pc[p] \in {"remove_manifest", "strip_settings", "_atomic_write_json", "json_dump",
                "os_replace"}
  \/ pc[p] = "exit" /\ run[p].cause \in {"", "invalid_json", "type_error"}

\* the run has passed the removal of the manifest
ManifestStepDone(p) ==
  \/ pc[p] \in {"strip_settings", "_atomic_write_json", "json_dump", "os_replace"}
  \/ pc[p] = "exit" /\ run[p].cause \in {"", "invalid_json", "type_error"}

C12_ManifestDrivenRemoval ==
  \A p \in Procs :
    (run[p].mode = "uninstall"
       /\ (run[p].startManifest.exists => run[p].startManifest.complete)) =>
      /\ \A f \in Paths \ Listed(p) : hookFile[f] = run[p].startFiles[f]
      /\ \A f \in Listed(p) : hookFile[f] \in {"absent", run[p].startFiles[f]}
      /\ LoopDone(p) => \A f \in Listed(p) : hookFile[f] = "absent"
      /\ manifest \in {NoManifest, run[p].startManifest}
      /\ pc[p] \in {"uninstall_hooks", "remove_loop"} => manifest = run[p].startManifest
      /\ ManifestStepDone(p) => manifest = NoManifest

\* an uninstall over the shorter manifest has completed: its two paths and the
\* manifest are gone, the three other files of HOOK_FILES are still there
C12_Witness ==
  \E p \in Procs :
    /\ run[p].mode = "uninstall" /\ pc[p] = "exit" /\ exitCode[p] = 0
    /\ run[p].startManifest = ShortManifest
    /\ run[p].startFiles = [f \in Paths |-> "dist"]
    /\ hookFile = [f \in Paths |-> IF f \in PathSet(ShortManifest.paths) THEN "absent" ELSE "dist"]
    /\ manifest = NoManifest

(***************************************************************************)
(* C13.  End-to-end lifecycle: a completed install over the empty document *)
(* leaves PreToolUse = [HOOK_ENTRY] and Stop = [STOP_HOOK_ENTRY]; a        *)
(* completed install over what an earlier release's install left, with     *)
(* another PreToolUse entry, leaves the current HOOK_ENTRY as the one      *)
(* PreToolUse entry; a completed uninstall after a completed install       *)
(* leaves both arrays empty and no file that the manifest it found names.  *)
(***************************************************************************)
Completed(p, mode) == pc[p] = "exit" /\ exitCode[p] = 0 /\ run[p].mode = mode

C13_Lifecycle ==
  \A p \in Procs :
    /\ Completed(p, "install") =>
          /\ settingsFile.exists /\ IsJson(settingsFile.bytes)
          /\ EventArray(DocIn(settingsFile), "PreToolUse") = << HOOK_ENTRY >>
          /\ EventArray(DocIn(settingsFile), "Stop") = << STOP_HOOK_ENTRY >>
    /\ (Completed(p, "uninstall") /\ run[p].prev.mode = "install" /\ run[p].prev.code = 0) =>
          /\ settingsFile.exists /\ IsJson(settingsFile.bytes)
          /\ EventArray(DocIn(settingsFile), "PreToolUse") = << >>
          /\ EventArray(DocIn(settingsFile), "Stop") = << >>
          /\ run[p].startManifest.exists /\ run[p].startManifest.complete
          /\ \A f \in PathSet(run[p].startManifest.paths) : hookFile[f] = "absent"

\* the uninstall has completed after the upgrade from the earlier release's
\* document, over all five files in place
C13_Witness ==
  \E p \in Procs :
    /\ Completed(p, "uninstall") /\ run[p].prev.mode = "install" /\ run[p].prev.code = 0
    /\ DocIn(origSettings) = OldInstalledDoc
    /\ EventArray(run[p].loaded, "PreToolUse") = << HOOK_ENTRY >>
    /\ \A f \in Paths : run[p].startFiles[f] # "absent"

(***************************************************************************)
(* C14.  Uninstall tolerates absence: whichever of the listed files are    *)
(* already gone, an uninstall run that is not killed, over a manifest and  *)
(* a settings.json it can read, ends with exit status 0, every listed file *)
(* and the manifest absent, and no owned entry in the configuration; run   *)
(* after a completed uninstall with no listed file left, it ends with the  *)
(* files, the manifest and settings.json as that uninstall left them.      *)
(***************************************************************************)
\* nothing the run reads makes it fail: the manifest and settings.json load
UninstallInputsLoad(p) ==
  /\ run[p].startManifest.exists => run[p].startManifest.complete
  /\ run[p].startSettings.exists =>
       /\ IsJson(run[p].startSettings.bytes)
       /\ HooksIsDict(JsonLoad(run[p].startSettings.bytes))

\* the run started where a completed uninstall leaves things: no manifest, no
\* file of the list, settings.json as that uninstall wrote it
AlreadyUninstalled(p) ==
  /\ run[p].prev.mode = "uninstall" /\ run[p].prev.code = 0
  /\ run[p].startManifest = NoManifest
  /\ \A f \in Listed(p) : run[p].startFiles[f] = "absent"

C14_UninstallToleratesAbsence ==
  \A p \in Procs :
    (run[p].mode = "uninstall" /\ pc[p] = "exit" /\ run[p].cause # "died"
       /\ UninstallInputsLoad(p)) =>
      /\ exitCode[p] = 0
      /\ \A f \in Listed(p) : hookFile[f] = "absent"
      /\ manifest = NoManifest
      /\ settingsFile.exists = run[p].startSettings.exists
      /\ settingsFile.exists =>
           /\ IsJson(settingsFile.bytes)
           /\ \A e \in Managed : OwnedAt(EventArray(DocIn(settingsFile), e), MarkerOf(e)) = {}
      /\ AlreadyUninstalled(p) =>
           /\ hookFile = run[p].startFiles
           /\ manifest = run[p].startManifest
           /\ settingsFile = run[p].startSettings

\* a second uninstall has completed where the first had removed four files
\* and the manifest and stripped settings.json
C14_Witness ==
  \E p \in Procs :
    /\ Completed(p, "uninstall")
    /\ AlreadyUninstalled(p)
    /\ run[p].wroteConfig
    /\ OwnedAt(EventArray(DocIn(origSettings), "PreToolUse"), ApproveMarker) # {}

(***************************************************************************)
(* C15.  The manifest is deleted only by an uninstall run that completes:  *)
(* an uninstall run that has given up on a settings.json it cannot parse   *)
(* has left the manifest as it found it.                                   *)
(***************************************************************************)
C15_AbortKeepsManifest ==
  \A p \in Procs :
    (run[p].mode = "uninstall" /\ pc[p] = "exit" /\ exitCode[p] # 0
       /\ run[p].cause = "invalid_json") =>
      manifest = run[p].startManifest

(***************************************************************************)
(* C16.  Step ordering: an install run touches settings.json or its temp   *)
(* file only after it has placed every path of HOOK_FILES, written the     *)
(* manifest and, where a rebuild is required, rebuilt both binaries; a run *)
(* in which a file could not be obtained or the build failed has ended     *)
(* with settings.json as it found it; an uninstall run touches             *)
(* settings.json only after the listed files and the manifest are gone.    *)
(***************************************************************************)
ConfigTouched(p) == run[p].tmpStarted \/ settingsFile # run[p].startSettings

InstallOrder(p) ==
  /\ ConfigTouched(p) =>
       /\ run[p].placed = Paths
       /\ run[p].wroteManifest
       /\ ~env.arm64 => run[p].rebuilt = { SWIFT_BINARIES[i].dst : i \in 1 .. Len(SWIFT_BINARIES) }
  /\ (run[p].unavailable \/ run[p].buildFailed) =>
       /\ ~ConfigTouched(p)
       /\ pc[p] = "exit" /\ exitCode[p] # 0

UninstallOrder(p) ==
  ConfigTouched(p) =>
    /\ \A f \in Listed(p) : hookFile[f] = "absent"
    /\ manifest = NoManifest

C16_StepOrdering ==
  \A p \in Procs :
    /\ run[p].mode = "install" => InstallOrder(p)
    /\ run[p].mode = "uninstall" => UninstallOrder(p)

(***************************************************************************)
(* C17.  Re-run is the recovery: a completed install that follows an       *)
(* aborted install of the same kind, itself started from the original      *)
(* state, ends with the hook files, the manifest, settings.json and its    *)
(* temp file exactly as a single completed install from the original       *)
(* state ends with them.                                                   *)
(***************************************************************************)
\* where a completed install of the given kind, from the original state, ends
EndOfInstall(source) ==
  [ files |->
      [ f \in Paths |->
          IF ~env.arm64 /\ f \in { SWIFT_BINARIES[i].dst : i \in 1 .. Len(SWIFT_BINARIES) }
          THEN "built"
          ELSE IF source = "remote" \/ (source = "copy" /\ f \notin env.missing)
          THEN "dist" ELSE "absent" ],
    manifest |-> [exists |-> TRUE, complete |-> TRUE, paths |-> HOOK_FILES],
    settings |-> [exists |-> TRUE, bytes |-> JsonDump(MergedSettings(DocIn(origSettings)))],
    tmp |-> NoFile ]

AtEnd(p) ==
  EndOfInstall(run[p].source) =
    [files |-> hookFile, manifest |-> manifest, settings |-> settingsFile, tmp |-> tmpFile]

\* the completed install of p is the second run, after an aborted install of
\* the same kind
RerunAfterAbort(p) ==
  /\ Completed(p, "install")
  /\ runs = 2
  /\ run[p].prev.mode = "install" /\ run[p].prev.code # 0
  /\ run[p].prev.source = run[p].source

C17_RerunRecovers ==
  \A p \in Procs :
    /\ (Completed(p, "install") /\ runs = 1) => AtEnd(p)
    /\ RerunAfterAbort(p) => AtEnd(p)

\* the re-run has completed where the aborted download had left a file cut
\* short and no manifest
C17_Witness ==
  \E p \in Procs :
    /\ RerunAfterAbort(p)
    /\ \E f \in Paths : run[p].startFiles[f] = "partial"
    /\ run[p].startManifest = NoManifest
    /\ AtEnd(p)

(***************************************************************************)
(* C18.  Strip does not throw on malformed entries: the entries of a       *)
(* managed event array that have no "hooks" key, or whose descriptors have *)
(* no "command" key, are all in the stripped array, in order and           *)
(* unchanged, and the edit does not fail on a document whose "hooks" is an *)
(* object.                                                                 *)
(***************************************************************************)
Malformed(e) ==
  \/ "hooks" \notin DOMAIN e
  \/ /\ e.hooks # << >>
     /\ \A j \in DOMAIN e.hooks : "command" \notin DOMAIN e.hooks[j]

\* the malformed entries of the array, in order
MalformedOf(entries) ==
  LET K == { i \in 1 .. Len(entries) : Malformed(entries[i]) } IN
    [ j \in 1 .. Cardinality(K) |->
        entries[CHOOSE i \in K : Cardinality({ x \in K : x <= i }) = j] ]

C18_MalformedKept ==
  \A p \in Procs :
    /\ pc[p] = "_atomic_write_json" =>
         \A event \in Managed :
           MalformedOf(StrippedArray(p, event)) = MalformedOf(EventArray(run[p].loaded, event))
    /\ (pc[p] = "exit" /\ run[p].cause = "type_error") => ~HooksIsDict(run[p].loaded)

\* the install edit is through on a PreToolUse array of an entry without
\* "hooks" and an entry whose descriptor has no "command"
C18_Witness ==
  \E p \in Procs :
    /\ pc[p] = "_atomic_write_json"
    /\ EventArray(run[p].loaded, "PreToolUse") = << NoHooksEntry, NoCommandEntry >>
    /\ EventArray(settings[p], "PreToolUse") = << NoHooksEntry, NoCommandEntry, HOOK_ENTRY >>

(***************************************************************************)
(* C19.  Uninstall never creates a configuration file: an uninstall run    *)
(* that found no settings.json writes neither settings.json nor its temp   *)
(* file, and ends with exit status 0 unless it is killed or cannot read    *)
(* the manifest.                                                           *)
(***************************************************************************)
C19_UninstallCreatesNoConfig ==
  \A p \in Procs :
    (run[p].mode = "uninstall" /\ ~run[p].startSettings.exists) =>
      /\ settingsFile = NoFile
      /\ tmpFile = NoFile
      /\ ~run[p].tmpStarted
      /\ (pc[p] = "exit" /\ run[p].cause \notin {"died", "manifest"}) => exitCode[p] = 0

\* an uninstall without settings.json has removed files and the manifest and
\* returned
C19_Witness ==
  \E p \in Procs :
    /\ Completed(p, "uninstall")
    /\ ~run[p].startSettings.exists
    /\ run[p].startManifest.exists
    /\ \E f \in Paths : run[p].startFiles[f] # "absent" /\ hookFile[f] = "absent"
    /\ manifest = NoManifest /\ settingsFile = NoFile /\ tmpFile = NoFile

(***************************************************************************)
(* C20.  After a completed install or uninstall that rewrote an existing   *)
(* settings.json, the document has a "hooks" object with both a PreToolUse *)
(* key and a Stop key, whatever the original document had; where uninstall *)
(* found neither, both are empty arrays.                                   *)
(***************************************************************************)
HasBothArrays(doc) ==
  /\ HasKey(doc, "hooks")
  /\ Lookup(doc, "hooks").t = "obj"
  /\ \A e \in Managed : HasKey(Lookup(doc, "hooks").o, e)

C20_BothArraysPresent ==
  \A p \in Procs :
    (pc[p] = "exit" /\ exitCode[p] = 0 /\ run[p].wroteConfig) =>
      /\ settingsFile.exists /\ IsJson(settingsFile.bytes)
      /\ HasBothArrays(DocIn(settingsFile))
      /\ run[p].mode = "uninstall" =>
           \A e \in Managed :
             ~HasKey(HooksObj(run[p].loaded), e) => EventArray(DocIn(settingsFile), e) = << >>

\* an uninstall has completed on a document that had no "hooks" key
C20_Witness ==
  \E p \in Procs :
    /\ Completed(p, "uninstall") /\ run[p].wroteConfig
    /\ run[p].loaded = TopDoc(TRUE, << >>)
    /\ DocIn(settingsFile) =
         TopDoc(TRUE, HooksItem(Event("PreToolUse", << >>) \o Event("Stop", << >>)))

====
